---- MODULE Spec2Model ----
(***************************************************************************)
(* Verification model of the Signal Booster optimization engine           *)
(* (signal_booster/core.py, advanced_config.py, advanced_settings.py).     *)
(*                                                                         *)
(* Spec       the SignalBooster orchestrator: caller threads running       *)
(*            start / stop / stop_boosting / set_optimization_level, and   *)
(*            the monitor threads _monitor_and_optimize, interleaved at    *)
(*            the blocking calls of each method.                           *)
(* SpecApply  apply_optimizations of AdvancedConfig and AdvancedSettings,  *)
(*            one step of the apply sequence per action.                   *)
(***************************************************************************)
EXTENDS Integers, Sequences, FiniteSets, TLC

VARIABLES
    \* ---- SignalBooster fields (core.py __init__, lines 56-98)
    active, is_running, target_speed, aggressive, optimization_level,
    advanced_settings, flags, current_config, current_speed, current_signal,
    optimization_level_value, original_settings, os_type, active_interface,
    \* ---- threads
    pc,        \* caller thread -> position inside the method it is running
    call,      \* caller thread -> what the running call has done so far
    mon,       \* the monitor threads created so far, in creation order
    ncalls,    \* number of calls issued so far
    \* ---- apply_optimizations (SpecApply)
    ap,
    \* ---- the call of a network helper function under check (SpecMerge, ...)
    fn

orch_vars == <<active, is_running, target_speed, aggressive, optimization_level,
               advanced_settings, flags, current_config, current_speed,
               current_signal, optimization_level_value, original_settings,
               os_type, active_interface, pc, call, mon, ncalls>>
vars == <<orch_vars, ap, fn>>

-----------------------------------------------------------------------------
\* Bounds of the model

\* calls issued by the caller threads in one behaviour
MaxCalls == 2

-----------------------------------------------------------------------------
\* Program constants and enumerations

\* core.py:90  self.target_signal_strength = 85
target_signal_strength == 85

\* advanced_config.py:21-26
Levels == {"light", "standard", "aggressive", "extreme"}

\* core.py:94-98, 132-141: the feature flags and the override keys
FlagNames == {"dns_prefetching", "channel_switching", "deep_packet_inspection",
              "bandwidth_control", "packet_prioritization"}

\* platform.system() values told apart by core.py:161-173
OsTypes == {"Windows", "Linux", "Darwin", "Other"}

\* the threads that call into one SignalBooster (gui.py: the Tk thread and the
\* booster_thread created by toggle_boosting)
Callers == {"gui", "worker"}

\* an optional argument: None, or Some(v)
None == {}
Some(v) == {v}
Opt(S) == {None} \cup {Some(v) : v \in S}
Given(o) == CHOOSE v \in o : TRUE

NoInterface == "none"

\* measured values a probe can return
Speeds == {5, 30}
Signals == {50, 90}

Min(a, b) == IF a <= b THEN a ELSE b

EmptyDoc == [f \in {} |-> TRUE]

\* dict.update: keys of b win
DictUpdate(a, b) == [k \in DOMAIN a \cup DOMAIN b |->
                        IF k \in DOMAIN b THEN b[k] ELSE a[k]]

-----------------------------------------------------------------------------
\* Feature flags and profile resolution

\* variant of LevelFlags: the extreme branch leaves deep packet inspection off
LevelFlagsExtremeWithoutDpi(level) ==
    [dns_prefetching        |-> TRUE,
     channel_switching      |-> TRUE,
     deep_packet_inspection |-> level = "aggressive",
     bandwidth_control      |-> level # "light",
     packet_prioritization  |-> level # "light"]

\* core.py:106-129
LevelFlags(level) ==
    [dns_prefetching        |-> TRUE,
     channel_switching      |-> TRUE,
     deep_packet_inspection |-> level \in {"aggressive", "extreme"},
     bandwidth_control      |-> level # "light",
     packet_prioritization  |-> level # "light"]

\* variant of set_feature_flags: the override block is missing
set_feature_flags_without_overrides(level, adv) == LevelFlags(level)

\* core.py:103-141
set_feature_flags(level, adv) ==
    [f \in FlagNames |-> IF f \in DOMAIN adv THEN adv[f] ELSE LevelFlags(level)[f]]

\* advanced_config.py:302-308
detect_connection_type == "wifi_2ghz"

\* core.py:143-157: the profile resolved for (level, connection type)
get_effective_config(level) ==
    [level |-> level, connection_type |-> detect_connection_type]

\* core.py:69-72
InitLevel(ag, lv) ==
    IF ag /\ lv \in {"light", "standard"} THEN "aggressive" ELSE lv

-----------------------------------------------------------------------------
\* Baseline capture and restoration

\* core.py:213-235, 237-276, 278-304, 306-338, 340-385, 387-423, 425-513:
\* the parameters recorded in original_settings at construction
backup_settings(os) ==
    CASE os = "Windows" ->
           {"tcp_params.autotuning", "tcp_params.congestion_provider",
            "tcp_params.window_size", "tcp_params.max_syn_retransmissions",
            "tcp_params.ttl", "power_settings.power_saving_enabled",
            "power_settings.selective_suspend",
            "qos_settings.packet_scheduler_enabled",
            "qos_settings.existing_rules"}
      [] os = "Linux" ->
           {"sysctl_params.net.ipv4.tcp_rmem", "sysctl_params.net.ipv4.tcp_wmem",
            "sysctl_params.net.ipv4.tcp_congestion_control",
            "sysctl_params.net.ipv4.tcp_window_scaling",
            "sysctl_params.net.core.rmem_max", "sysctl_params.net.core.wmem_max",
            "sysctl_params.net.ipv4.tcp_fastopen",
            "sysctl_params.net.ipv4.tcp_slow_start_after_idle",
            "sysctl_params.net.core.netdev_max_backlog",
            "sysctl_params.net.core.somaxconn",
            "dns_settings.resolv_conf", "dns_settings.nameservers"}
      [] os = "Darwin" ->
           {"network_settings.wifi_service", "network_settings.dns_servers",
            "network_settings.mtu", "network_settings.tcp_settings"}
      [] OTHER -> {}

\* core.py:1800-1970: the baseline parameters one run of
\* _restore_original_settings passes to a restore command
restored_params(os, settings, iface) ==
    CASE os = "Windows" ->
           \* 1815-1819 autotuning (when window_size was recorded), 1822-1826
           \* congestion provider, 1846-1853 power saving
           {p \in settings : p \in {"tcp_params.autotuning",
                                     "tcp_params.congestion_provider"}}
           \cup (IF iface # NoInterface
                 THEN settings \cap {"power_settings.power_saving_enabled"}
                 ELSE {})
      [] os = "Linux" ->
           \* 1866-1869 every sysctl parameter; 1878-1880 resolv.conf is copied
           \* back from /etc/resolv.conf.bak, not from the recorded value
           {p \in settings : p \notin {"dns_settings.resolv_conf",
                                        "dns_settings.nameservers"}}
      [] os = "Darwin" ->
           \* 1912-1938 the DNS servers
           IF iface # NoInterface
           THEN settings \cap {"network_settings.dns_servers"}
           ELSE {}
      [] OTHER -> {}

\* variant of settings_after_restore: the baseline is dropped once it has been
\* replayed
settings_discarded_after_restore(settings) == {}

\* core.py:1800-1970: _restore_original_settings reads original_settings and
\* leaves it as it is
settings_after_restore(settings) == settings

-----------------------------------------------------------------------------
\* Thread bookkeeping

NoArgs == [lv |-> None, adv |-> None]

\* the record of a thread that is running no call
NoCall ==
    [op |-> "none", arg |-> NoArgs, wasActive |-> FALSE, alone |-> FALSE,
     applies |-> 0, restores |-> 0, restoredWhileAlive |-> FALSE,
     spawned |-> 0, joined |-> FALSE]

\* the record of a call that has just been entered
NewCall(t, op, arg) ==
    [op         |-> op,
     arg        |-> arg,
     wasActive  |-> active,
     alone      |-> \A u \in Callers \ {t} : pc[u] = "idle",
     applies    |-> 0,
     restores   |-> 0,
     restoredWhileAlive |-> FALSE,
     spawned    |-> 0,
     joined     |-> FALSE]

\* t enters a call: every other call in progress is no longer alone
Enter(t, op, arg) ==
    [u \in Callers |->
        IF u = t THEN NewCall(t, op, arg)
        ELSE IF pc[u] = "idle" THEN call[u]
        ELSE [call[u] EXCEPT !.alone = FALSE]]

\* a thread may enter a call when it is idle; the worker thread is used only
\* to overlap a call the gui thread has in progress (idle threads are
\* interchangeable)
CanCall(t) ==
    /\ pc[t] = "idle"
    /\ ncalls < MaxCalls
    /\ t = "gui" \/ pc["gui"] # "idle"

MonitorsAlive == {i \in DOMAIN mon : mon[i] # "done"}

\* threads inside _apply_optimizations / _restore_original_settings
CallersApplying == {t \in Callers : pc[t] \in {"st_applying", "sb_applying", "sl_applying"}}
MonitorsApplying == {i \in DOMAIN mon : mon[i] = "applying"}
CallersRestoring == {t \in Callers : pc[t] = "stopb_restoring"}
InFlight == Cardinality(CallersApplying) + Cardinality(MonitorsApplying)
              + Cardinality(CallersRestoring)

\* core.py:1559-1562: the optimization value, in whole percent
optimization_value(signal, speed, target) ==
    Min((signal * 100) \div target_signal_strength, (speed * 100) \div target)

\* core.py:1013-1016, 1564-1605: _apply_optimizations re-measures the signal
\* when it is below the target
SignalAfterApply(signal) ==
    IF signal < target_signal_strength THEN Signals ELSE {signal}

\* core.py:999-1562: the end of one run of _apply_optimizations
apply_optimizations_end ==
    \E s \in SignalAfterApply(current_signal) :
        /\ current_signal' = s
        /\ optimization_level_value' = optimization_value(s, current_speed, target_speed)

-----------------------------------------------------------------------------
\* apply_optimizations (AdvancedConfig, AdvancedSettings): the state of one call

\* no helper function call is in progress
FnIdle == [name |-> "none"]

\* no call of apply_optimizations is in progress
ApIdle ==
    [impl |-> "none", tcp |-> FALSE, wifi |-> FALSE, dns |-> FALSE, qos |-> FALSE,
     is_wifi |-> FALSE, k |-> 0, attempted |-> << >>, applied |-> << >>,
     failed |-> << >>, success |-> FALSE, import_error |-> FALSE,
     returned |-> FALSE]

\* a call that has just been entered; success starts as the implementation
\* initialises it
ApCall(impl, tcp, wifi, dns, qos, is_wifi, success) ==
    [ApIdle EXCEPT !.impl = impl, !.tcp = tcp, !.wifi = wifi, !.dns = dns,
                   !.qos = qos, !.is_wifi = is_wifi, !.k = 1, !.success = success]

SeqToSet(q) == {q[i] : i \in DOMAIN q}

-----------------------------------------------------------------------------
\* Decisions of the code, one operator per condition

\* core.py:517  if self.active: return
StartBoostingRejects(a) == a

\* variant of StopBoostingNotRunning: the early return is missing
StopBoostingGuardMissing(a, r) == FALSE

\* core.py:1784  if not self.active and not self.is_running: return
StopBoostingNotRunning(a, r) == ~a /\ ~r

\* core.py:1795  hasattr(self, 'monitor_thread') and self.monitor_thread.is_alive()
MonitorThreadAlive(m) == Len(m) > 0 /\ m[Len(m)] # "done"

\* variant of SetLevelApplies: the test of the active flag is inverted
SetLevelAppliesWhenInactive(a) == ~a

\* core.py:2131  if self.active: self._apply_optimizations()
SetLevelApplies(a) == a

\* core.py:1715  if self.current_signal < self.target_signal_strength
ReoptimizeNeeded(signal, speed, target) == signal < target_signal_strength

-----------------------------------------------------------------------------
\* The constructor, core.py:44-101

init(ts, ag, lv, adv, os, iface) ==
    /\ target_speed = ts
    /\ aggressive = ag
    /\ optimization_level = InitLevel(ag, lv)
    /\ advanced_settings = adv
    /\ active = FALSE
    /\ is_running = FALSE
    /\ current_speed = 0
    /\ current_signal = 0
    /\ os_type = os
    /\ active_interface = iface
    /\ current_config = get_effective_config(InitLevel(ag, lv))
    /\ original_settings = backup_settings(os)
    /\ optimization_level_value = 0
    /\ flags = set_feature_flags(InitLevel(ag, lv), adv)
    /\ pc = [t \in Callers |-> "idle"]
    /\ call = [t \in Callers |-> NoCall]
    /\ mon = << >>
    /\ ncalls = 0

\* the override documents callers pass in Spec
OverrideDocs == {[f \in {"deep_packet_inspection"} |-> FALSE]}
LevelArgs == {"extreme"}
TargetSpeedArgs == {50}

Init ==
    /\ \E os \in OsTypes, iface \in {"wlan0", NoInterface} :
          init(20, FALSE, "standard", EmptyDoc, os, iface)
    /\ ap = ApIdle
    /\ fn = FnIdle

-----------------------------------------------------------------------------
\* start(), core.py:2139-2168 and start_boosting(), core.py:515-544

\* core.py:2152-2160: the arguments are stored; a level goes through
\* set_optimization_level, which applies at once when the booster is active
start(t, ts, ag, lv, adv) ==
    /\ CanCall(t)
    /\ ncalls' = ncalls + 1
    /\ target_speed' = IF ts # None THEN Given(ts) ELSE target_speed
    /\ aggressive' = IF ag # None THEN Given(ag) ELSE aggressive
    /\ IF lv # None
       THEN /\ optimization_level' = Given(lv)
            /\ current_config' = get_effective_config(Given(lv))
            /\ flags' = set_feature_flags(Given(lv), advanced_settings)
       ELSE UNCHANGED <<optimization_level, current_config, flags>>
    /\ LET applies == lv # None /\ SetLevelApplies(active)
           c == Enter(t, "start", [lv |-> lv, adv |-> adv])
       IN /\ pc' = [pc EXCEPT ![t] = IF applies THEN "st_applying" ELSE "st_adv"]
          /\ call' = [c EXCEPT ![t].applies = IF applies THEN 1 ELSE 0]
    /\ UNCHANGED <<active, is_running, advanced_settings, current_speed,
                   current_signal, optimization_level_value, original_settings,
                   os_type, active_interface, mon, ap, fn>>

\* core.py:2131-2134 reached from start(): the apply sequence has finished
start_level_applied(t) ==
    /\ pc[t] = "st_applying"
    /\ apply_optimizations_end
    /\ pc' = [pc EXCEPT ![t] = "st_adv"]
    /\ UNCHANGED <<active, is_running, target_speed, aggressive, optimization_level,
                   advanced_settings, flags, current_config, current_speed,
                   original_settings, os_type, active_interface, call, mon,
                   ncalls, ap, fn>>

\* core.py:2162-2168 and 515-530: the overrides are merged, then start_boosting
\* returns at once when active or without an interface
start_boosting(t) ==
    /\ pc[t] = "st_adv"
    /\ IF call[t].arg.adv # None
       THEN /\ advanced_settings' = DictUpdate(advanced_settings, Given(call[t].arg.adv))
            /\ current_config' = get_effective_config(optimization_level)
            /\ flags' = set_feature_flags(optimization_level, advanced_settings')
       ELSE UNCHANGED <<advanced_settings, current_config, flags>>
    /\ pc' = [pc EXCEPT ![t] =
                 IF StartBoostingRejects(active) \/ active_interface = NoInterface
                 THEN "ret" ELSE "sb_diag"]
    /\ UNCHANGED <<active, is_running, target_speed, aggressive, optimization_level,
                   current_speed, current_signal, optimization_level_value,
                   original_settings, os_type, active_interface, call, mon,
                   ncalls, ap, fn>>

\* core.py:533-536: _run_diagnostics measures, then _apply_optimizations begins
run_diagnostics(t) ==
    /\ pc[t] = "sb_diag"
    /\ current_speed' \in Speeds
    /\ current_signal' \in Signals
    /\ pc' = [pc EXCEPT ![t] = "sb_applying"]
    /\ call' = [call EXCEPT ![t].applies = @ + 1]
    /\ UNCHANGED <<active, is_running, target_speed, aggressive, optimization_level,
                   advanced_settings, flags, current_config,
                   optimization_level_value, original_settings, os_type,
                   active_interface, mon, ncalls, ap, fn>>

\* core.py:536-544: the apply sequence has finished; both flags are set and the
\* monitor thread is started
start_boosting_activate(t) ==
    /\ pc[t] = "sb_applying"
    /\ apply_optimizations_end
    /\ active' = TRUE
    /\ is_running' = TRUE
    /\ mon' = Append(mon, "top")
    /\ pc' = [pc EXCEPT ![t] = "ret"]
    /\ call' = [call EXCEPT ![t].spawned = @ + 1]
    /\ UNCHANGED <<target_speed, aggressive, optimization_level, advanced_settings,
                   flags, current_config, current_speed, original_settings,
                   os_type, active_interface, ncalls, ap, fn>>

-----------------------------------------------------------------------------
\* stop(), core.py:1776-1780 and stop_boosting(), core.py:1782-1798

\* core.py:1778-1780: both flags are cleared, then stop_boosting is called
stop(t) ==
    /\ CanCall(t)
    /\ ncalls' = ncalls + 1
    /\ active' = FALSE
    /\ is_running' = FALSE
    /\ pc' = [pc EXCEPT ![t] = "stopb_check"]
    /\ call' = Enter(t, "stop", NoArgs)
    /\ UNCHANGED <<target_speed, aggressive, optimization_level, advanced_settings,
                   flags, current_config, current_speed, current_signal,
                   optimization_level_value, original_settings, os_type,
                   active_interface, mon, ap, fn>>

\* stop_boosting() called directly (cli.py:189)
stop_boosting(t) ==
    /\ CanCall(t)
    /\ ncalls' = ncalls + 1
    /\ pc' = [pc EXCEPT ![t] = "stopb_check"]
    /\ call' = Enter(t, "stop_boosting", NoArgs)
    /\ UNCHANGED <<active, is_running, target_speed, aggressive, optimization_level,
                   advanced_settings, flags, current_config, current_speed,
                   current_signal, optimization_level_value, original_settings,
                   os_type, active_interface, mon, ap, fn>>

\* core.py:1784-1792: return when not running; otherwise clear the flags and
\* begin _restore_original_settings
stop_boosting_enter(t) ==
    /\ pc[t] = "stopb_check"
    /\ IF StopBoostingNotRunning(active, is_running)
       THEN /\ pc' = [pc EXCEPT ![t] = "ret"]
            /\ UNCHANGED <<active, is_running, call>>
       ELSE /\ active' = FALSE
            /\ is_running' = FALSE
            /\ pc' = [pc EXCEPT ![t] = "stopb_restoring"]
            /\ call' = [call EXCEPT ![t].restoredWhileAlive = MonitorsAlive # {}]
    /\ UNCHANGED <<target_speed, aggressive, optimization_level, advanced_settings,
                   flags, current_config, current_speed, current_signal,
                   optimization_level_value, original_settings, os_type,
                   active_interface, mon, ncalls, ap, fn>>

\* core.py:1792-1796: _restore_original_settings has finished; the monitor
\* thread is joined when it is still alive
restore_original_settings(t) ==
    /\ pc[t] = "stopb_restoring"
    /\ original_settings' = settings_after_restore(original_settings)
    /\ call' = [call EXCEPT ![t].restores = @ + 1]
    /\ pc' = [pc EXCEPT ![t] = IF MonitorThreadAlive(mon) THEN "stopb_join" ELSE "ret"]
    /\ UNCHANGED <<active, is_running, target_speed, aggressive, optimization_level,
                   advanced_settings, flags, current_config, current_speed,
                   current_signal, optimization_level_value, os_type,
                   active_interface, mon, ncalls, ap, fn>>

\* core.py:1796: join(timeout=2.0) returns, the thread finished or not
monitor_join(t) ==
    /\ pc[t] = "stopb_join"
    /\ call' = [call EXCEPT ![t].joined = TRUE]
    /\ pc' = [pc EXCEPT ![t] = "ret"]
    /\ UNCHANGED <<active, is_running, target_speed, aggressive, optimization_level,
                   advanced_settings, flags, current_config, current_speed,
                   current_signal, optimization_level_value, original_settings,
                   os_type, active_interface, mon, ncalls, ap, fn>>

-----------------------------------------------------------------------------
\* set_optimization_level(), core.py:2110-2137

\* core.py:2120-2132: level, profile and flags are set; the apply sequence
\* begins when the booster is active
set_optimization_level(t, lv) ==
    /\ CanCall(t)
    /\ ncalls' = ncalls + 1
    /\ optimization_level' = lv
    /\ current_config' = get_effective_config(lv)
    /\ flags' = set_feature_flags(lv, advanced_settings)
    /\ LET applies == SetLevelApplies(active)
           c == Enter(t, "set_optimization_level", [lv |-> Some(lv), adv |-> None])
       IN /\ pc' = [pc EXCEPT ![t] = IF applies THEN "sl_applying" ELSE "ret"]
          /\ call' = [c EXCEPT ![t].applies = IF applies THEN 1 ELSE 0]
    /\ UNCHANGED <<active, is_running, target_speed, aggressive, advanced_settings,
                   current_speed, current_signal, optimization_level_value,
                   original_settings, os_type, active_interface, mon, ap, fn>>

\* core.py:2132-2134: the apply sequence has finished
set_optimization_level_applied(t) ==
    /\ pc[t] = "sl_applying"
    /\ apply_optimizations_end
    /\ pc' = [pc EXCEPT ![t] = "ret"]
    /\ UNCHANGED <<active, is_running, target_speed, aggressive, optimization_level,
                   advanced_settings, flags, current_config, current_speed,
                   original_settings, os_type, active_interface, call, mon,
                   ncalls, ap, fn>>

\* the call returns to its caller
call_return(t) ==
    /\ pc[t] = "ret"
    /\ pc' = [pc EXCEPT ![t] = "idle"]
    /\ call' = [call EXCEPT ![t] = NoCall]
    /\ UNCHANGED <<active, is_running, target_speed, aggressive, optimization_level,
                   advanced_settings, flags, current_config, current_speed,
                   current_signal, optimization_level_value, original_settings,
                   os_type, active_interface, mon, ncalls, ap, fn>>

-----------------------------------------------------------------------------
\* _monitor_and_optimize(), core.py:1693-1730

\* core.py:1696-1712: the loop condition and the measurements of one pass; the
\* thread ends when it reads active = False
monitor_and_optimize(i) ==
    /\ i \in DOMAIN mon
    /\ mon[i] = "top"
    /\ IF ~active
       THEN /\ mon' = [mon EXCEPT ![i] = "done"]
            /\ UNCHANGED <<current_speed, current_signal>>
       ELSE /\ current_speed' \in Speeds
            /\ current_signal' \in Signals
            /\ mon' = [mon EXCEPT ![i] = "measured"]
    /\ UNCHANGED <<active, is_running, target_speed, aggressive, optimization_level,
                   advanced_settings, flags, current_config,
                   optimization_level_value, original_settings, os_type,
                   active_interface, pc, call, ncalls, ap, fn>>

\* core.py:1714-1726: the re-optimization decision of the pass; without a
\* re-apply the thread sleeps and goes back to the loop condition
monitor_decide(i) ==
    /\ i \in DOMAIN mon
    /\ mon[i] = "measured"
    /\ mon' = [mon EXCEPT ![i] =
                  IF ReoptimizeNeeded(current_signal, current_speed, target_speed)
                  THEN "applying" ELSE "top"]
    /\ UNCHANGED <<active, is_running, target_speed, aggressive, optimization_level,
                   advanced_settings, flags, current_config, current_speed,
                   current_signal, optimization_level_value, original_settings,
                   os_type, active_interface, pc, call, ncalls, ap, fn>>

\* core.py:1720-1726: the apply sequence run by the loop has finished
monitor_applied(i) ==
    /\ i \in DOMAIN mon
    /\ mon[i] = "applying"
    /\ apply_optimizations_end
    /\ mon' = [mon EXCEPT ![i] = "top"]
    /\ UNCHANGED <<active, is_running, target_speed, aggressive, optimization_level,
                   advanced_settings, flags, current_config, current_speed,
                   original_settings, os_type, active_interface, pc, call,
                   ncalls, ap, fn>>

-----------------------------------------------------------------------------
\* The orchestrator

StartCall ==
    \E t \in Callers, ts \in Opt(TargetSpeedArgs), ag \in Opt({}),
       lv \in Opt(LevelArgs), adv \in Opt(OverrideDocs) :
        start(t, ts, ag, lv, adv)
StartLevelApplied == \E t \in Callers : start_level_applied(t)
StartBoosting == \E t \in Callers : start_boosting(t)
RunDiagnostics == \E t \in Callers : run_diagnostics(t)
StartBoostingActivate == \E t \in Callers : start_boosting_activate(t)
StopCall == \E t \in Callers : stop(t)
StopBoostingCall == \E t \in Callers : stop_boosting(t)
StopBoostingEnter == \E t \in Callers : stop_boosting_enter(t)
RestoreOriginalSettings == \E t \in Callers : restore_original_settings(t)
MonitorJoin == \E t \in Callers : monitor_join(t)
SetLevelCall == \E t \in Callers, lv \in LevelArgs : set_optimization_level(t, lv)
SetLevelApplied == \E t \in Callers : set_optimization_level_applied(t)
CallReturn == \E t \in Callers : call_return(t)
MonitorIterate == \E i \in DOMAIN mon : monitor_and_optimize(i)
MonitorDecide == \E i \in DOMAIN mon : monitor_decide(i)
MonitorApplied == \E i \in DOMAIN mon : monitor_applied(i)

Next ==
    \/ StartCall
    \/ StartLevelApplied
    \/ StartBoosting
    \/ RunDiagnostics
    \/ StartBoostingActivate
    \/ StopCall
    \/ StopBoostingCall
    \/ StopBoostingEnter
    \/ RestoreOriginalSettings
    \/ MonitorJoin
    \/ SetLevelCall
    \/ SetLevelApplied
    \/ CallReturn
    \/ MonitorIterate
    \/ MonitorDecide
    \/ MonitorApplied

Spec == Init /\ [][Next]_vars

-----------------------------------------------------------------------------
\* Properties of the orchestrator (checked under Spec)

StopOps == {"stop", "stop_boosting"}

StartStepWhileActive(t) ==
    \/ /\ pc[t] = "idle" /\ pc'[t] # "idle"
       /\ call'[t].op = "start" /\ call'[t].alone /\ active
    \/ /\ pc[t] # "idle" /\ pc'[t] # pc[t]
       /\ call[t].op = "start" /\ call[t].alone /\ call[t].wasActive

C3_StopWhileIdleIsNoOp ==
    \A t \in Callers :
        (pc[t] # "idle" /\ call[t].op \in StopOps /\ ~call[t].wasActive /\ call[t].alone)
            => /\ ~active
               /\ ~is_running
               /\ pc[t] \notin {"stopb_restoring", "stopb_join"}
               /\ call[t].restores = 0

\* C3 witness: a second call, a stop() entered while Idle, has returned
C3_Witness ==
    \E t \in Callers :
        /\ pc[t] = "ret" /\ call[t].op = "stop"
        /\ ~call[t].wasActive /\ call[t].alone /\ ncalls = 2

Idle ==
    /\ ~active
    /\ \A t \in Callers : pc[t] = "idle"
    /\ MonitorsAlive = {}

-----------------------------------------------------------------------------
\* advanced_config.py:310-424  AdvancedConfig.apply_optimizations(config)

\* advanced_config.py:357-376, 381-400, 405-424: the platform prefix of the
\* step names
PlatformPrefix(os) ==
    CASE os = "Windows" -> "windows"
      [] os = "Linux" -> "linux"
      [] os = "Darwin" -> "macos"
      [] OTHER -> "none"

\* advanced_config.py:326-347: the steps in the order the code runs them, each
\* with the condition under which it is attempted
ConfigSteps(os, a) ==
    << [name |-> PlatformPrefix(os) \o "_tcp", due |-> os # "Other" /\ a.tcp],
       [name |-> PlatformPrefix(os) \o "_wifi", due |-> os # "Other" /\ a.wifi],
       [name |-> "dns_servers", due |-> a.dns] >>

\* advanced_config.py:350  results["success"] = len(results["applied"]) > 0
ConfigSuccess(applied) == Len(applied) > 0

\* advanced_config.py:357-365 and alike: the body of every try block only
\* appends to the result lists, so an attempted step is recorded as applied
config_apply_step ==
    /\ ap.impl = "advanced_config"
    /\ ~ap.returned
    /\ ap.k <= Len(ConfigSteps(os_type, ap))
    /\ LET st == ConfigSteps(os_type, ap)[ap.k]
       IN ap' = IF st.due
                THEN [ap EXCEPT !.k = @ + 1,
                                !.attempted = Append(@, [name |-> st.name, ok |-> TRUE]),
                                !.applied = Append(@, st.name)]
                ELSE [ap EXCEPT !.k = @ + 1]
    /\ UNCHANGED <<orch_vars, fn>>

\* advanced_config.py:349-352
config_apply_return ==
    /\ ap.impl = "advanced_config"
    /\ ~ap.returned
    /\ ap.k > Len(ConfigSteps(os_type, ap))
    /\ ap' = [ap EXCEPT !.success = ConfigSuccess(ap.applied), !.returned = TRUE]
    /\ UNCHANGED <<orch_vars, fn>>

-----------------------------------------------------------------------------
\* advanced_settings.py:406-652  AdvancedSettings.apply_optimizations(level, type)

\* advanced_settings.py:455-512 (Windows), 526-582 (Linux), 596-652 (macOS):
\* the steps in the order the code runs them
SettingsSteps(os, a) ==
    IF os = "Other" THEN << >>
    ELSE << [name |-> "TCP settings", due |-> a.tcp],
            [name |-> "DNS settings", due |-> a.dns],
            [name |-> "WiFi settings", due |-> a.wifi /\ a.is_wifi],
            [name |-> "QoS settings", due |-> a.qos],
            [name |-> "System settings", due |-> TRUE] >>

\* advanced_settings.py:425-429: "success": True before any step has run
SettingsInitialSuccess == TRUE

\* advanced_settings.py:443: the success flag returned after the steps, left as
\* initialised
SettingsSuccess(success, applied) == success

\* advanced_settings.py:522  from signal_booster.network.platform.linux import
\* set_linux_dns: the module is not among the sources, the import may fail;
\* the ImportError is caught at 438-441
settings_apply_import_error ==
    /\ ap.impl = "advanced_settings"
    /\ ~ap.returned
    /\ ap.k = 1
    /\ os_type = "Linux"
    /\ ap' = [ap EXCEPT !.success = FALSE, !.import_error = TRUE, !.returned = TRUE]
    /\ UNCHANGED <<orch_vars, fn>>

\* one step: the optimizer returns True, returns False or raises; False and
\* an exception both record the step as failed
settings_apply_step(outcome) ==
    /\ ap.impl = "advanced_settings"
    /\ ~ap.returned
    /\ ap.k <= Len(SettingsSteps(os_type, ap))
    /\ LET st == SettingsSteps(os_type, ap)[ap.k]
       IN ap' = IF st.due
                THEN [ap EXCEPT !.k = @ + 1,
                                !.attempted = Append(@, [name |-> st.name,
                                                         ok |-> outcome = "true"]),
                                !.applied = IF outcome = "true"
                                            THEN Append(@, st.name) ELSE @,
                                !.failed = IF outcome = "true"
                                           THEN @ ELSE Append(@, st.name)]
                ELSE [ap EXCEPT !.k = @ + 1]
    /\ UNCHANGED <<orch_vars, fn>>

\* advanced_settings.py:443
settings_apply_return ==
    /\ ap.impl = "advanced_settings"
    /\ ~ap.returned
    /\ ap.k > Len(SettingsSteps(os_type, ap))
    /\ ap' = [ap EXCEPT !.success = SettingsSuccess(ap.success, ap.applied),
                        !.returned = TRUE]
    /\ UNCHANGED <<orch_vars, fn>>

\* advanced_config.py:130-145 (advanced_settings.py:169-187): QoS is enabled at
\* every level but light
QosEnabled(level) == level # "light"

InitApply ==
    /\ \E os \in OsTypes : init(20, FALSE, "standard", EmptyDoc, os, "wlan0")
    /\ \/ \E tcp \in BOOLEAN, wifi \in BOOLEAN, dns \in BOOLEAN :
             ap = ApCall("advanced_config", tcp, wifi, dns, FALSE, FALSE, FALSE)
       \/ \E level \in Levels, is_wifi \in BOOLEAN :
             ap = ApCall("advanced_settings", TRUE, TRUE, TRUE, QosEnabled(level),
                         is_wifi, SettingsInitialSuccess)
    /\ fn = FnIdle

SettingsApplyStep == \E outcome \in {"true", "false", "raise"} : settings_apply_step(outcome)

NextApply ==
    \/ config_apply_step
    \/ config_apply_return
    \/ settings_apply_import_error
    \/ SettingsApplyStep
    \/ settings_apply_return

SpecApply == InitApply /\ [][NextApply]_vars

-----------------------------------------------------------------------------
\* Properties of apply_optimizations (checked under SpecApply)

\* the steps the call had to attempt, in order
DueSteps(a) ==
    LET steps == IF a.impl = "advanced_config" THEN ConfigSteps(os_type, a)
                 ELSE SettingsSteps(os_type, a)
    IN SelectSeq(steps, LAMBDA st : st.due)

\* C10: for any combination of per-step outcomes every apply step is
\* attempted even when an earlier one failed, each attempted step is reported
\* in exactly one of applied / failed according to its outcome, and success is
\* true exactly when at least one step is in applied.
C10_ApplyResult ==
    (ap.returned /\ ~ap.import_error)
        => /\ Len(ap.attempted) = Len(DueSteps(ap))
           /\ \A j \in DOMAIN ap.attempted :
                 /\ ap.attempted[j].name = DueSteps(ap)[j].name
                 /\ (ap.attempted[j].name \in SeqToSet(ap.applied)) = ap.attempted[j].ok
                 /\ (ap.attempted[j].name \in SeqToSet(ap.failed)) = ~ap.attempted[j].ok
           /\ ap.success = (Len(ap.applied) > 0)

\* the place of a step in the order DNS, transport/TCP, wireless,
\* traffic-priority, advanced features
StepRank(name) ==
    CASE name \in {"dns_servers", "DNS settings"} -> 1
      [] name \in {"windows_tcp", "linux_tcp", "macos_tcp", "TCP settings"} -> 2
      [] name \in {"windows_wifi", "linux_wifi", "macos_wifi", "WiFi settings"} -> 3
      [] name = "QoS settings" -> 4
      [] OTHER -> 5

\* C25: within one apply sequence the steps are attempted in the order DNS,
\* transport/TCP, wireless, traffic-priority, advanced features: no step is
\* attempted after a step that comes later in this list.
C25_ApplyOrder ==
    \A i \in DOMAIN ap.attempted, j \in DOMAIN ap.attempted :
        i < j => StepRank(ap.attempted[i].name) <= StepRank(ap.attempted[j].name)

-----------------------------------------------------------------------------
\* SpecSettings: one caller constructs the booster with any level and
\* overrides, then calls start(...) and set_optimization_level(...) one after
\* the other; the monitor thread runs in between.

\* advanced_config.py:21-26: the levels in their order
LevelRank(level) ==
    CASE level = "light" -> 1
      [] level = "standard" -> 2
      [] level = "aggressive" -> 3
      [] level = "extreme" -> 4

\* override documents as _set_feature_flags reads them (flag name -> value at
\* the top level, core.py:132-141), and one in the shape the GUI builds
\* (gui.py:196-203: the flag nested under "features")
SettingsOverrideDocs ==
    { [f \in {"deep_packet_inspection"} |-> FALSE],
      [f \in {"deep_packet_inspection", "bandwidth_control"} |->
          f = "deep_packet_inspection"],
      [f \in {"features"} |-> [g \in {"packet_prioritization"} |-> FALSE]] }

InitSettings ==
    /\ \E lv \in Levels, adv \in {EmptyDoc} \cup SettingsOverrideDocs :
          init(20, FALSE, lv, adv, "Linux", "wlan0")
    /\ ap = ApIdle
    /\ fn = FnIdle

SettingsStartCall ==
    \E lv \in Opt(Levels), adv \in Opt(SettingsOverrideDocs) :
        start("gui", None, None, lv, adv)

SettingsSetLevelCall == \E lv \in Levels : set_optimization_level("gui", lv)

NextSettings ==
    \/ SettingsStartCall
    \/ StartLevelApplied
    \/ StartBoosting
    \/ RunDiagnostics
    \/ StartBoostingActivate
    \/ SettingsSetLevelCall
    \/ SetLevelApplied
    \/ CallReturn
    \/ MonitorIterate
    \/ MonitorDecide
    \/ MonitorApplied

SpecSettings == InitSettings /\ [][NextSettings]_vars

\* C11: with no caller overrides, for any two levels L1 < L2 (light < standard
\* < aggressive < extreme) every feature flag enabled at L1 is also enabled at
\* L2: a step that raises the level switches no flag off, and a step that
\* lowers it switches no flag on.
C11_FlagsMonotoneInLevel ==
    [][(advanced_settings = EmptyDoc /\ advanced_settings' = EmptyDoc)
          => /\ LevelRank(optimization_level) < LevelRank(optimization_level')
                  => \A f \in FlagNames : flags[f] => flags'[f]
             /\ LevelRank(optimization_level') < LevelRank(optimization_level)
                  => \A f \in FlagNames : flags'[f] => flags[f]]_vars

\* C11 witness: without overrides the level has been set to extreme by a call
\* and deep packet inspection is on
C11_Witness ==
    /\ pc["gui"] = "ret" /\ call["gui"].op = "set_optimization_level"
    /\ advanced_settings = EmptyDoc
    /\ optimization_level = "extreme"
    /\ flags["deep_packet_inspection"] /\ flags["bandwidth_control"]

-----------------------------------------------------------------------------
\* SpecMerge: merging an override document into a profile, as done by
\* advanced_config.py:294-300, advanced_settings.py:317-328 and
\* core.py:151-155

\* a value of a document: a scalar, or a nested document
Atom(n) == [kind |-> "atom", v |-> n]
Dict(d) == [kind |-> "dict", d |-> d]
IsDict(x) == x.kind = "dict"

\* the functions from a subset of keys to values
PartialFns(keys, values) == UNION {[K -> values] : K \in SUBSET keys}

\* scalar values 1 .. MaxMergeValue
MaxMergeValue == 2

\* section documents (parameter -> scalar) and documents (category -> scalar
\* or section)
MergeSections == PartialFns({"a", "b"}, {Atom(n) : n \in 1..MaxMergeValue})
MergeDocs ==
    PartialFns({"tcp", "dns"},
               {Atom(n) : n \in 1..MaxMergeValue} \cup {Dict(d) : d \in MergeSections})

\* variant of config_merge_configs: a scalar present on both sides is added
\* to the base's instead of replacing it
RECURSIVE config_merge_configs_accumulating(_, _)
config_merge_configs_accumulating(base, override) ==
    [k \in DOMAIN base \cup DOMAIN override |->
        IF k \notin DOMAIN override THEN base[k]
        ELSE IF k \in DOMAIN base /\ IsDict(base[k]) /\ IsDict(override[k])
        THEN Dict(config_merge_configs_accumulating(base[k].d, override[k].d))
        ELSE IF k \in DOMAIN base /\ ~IsDict(base[k]) /\ ~IsDict(override[k])
        THEN Atom(base[k].v + override[k].v)
        ELSE override[k]]

\* advanced_config.py:294-300: recursive merge, the override wins
RECURSIVE config_merge_configs(_, _)
config_merge_configs(base, override) ==
    [k \in DOMAIN base \cup DOMAIN override |->
        IF k \notin DOMAIN override THEN base[k]
        ELSE IF k \in DOMAIN base /\ IsDict(base[k]) /\ IsDict(override[k])
        THEN Dict(config_merge_configs(base[k].d, override[k].d))
        ELSE override[k]]

\* advanced_settings.py:325-328: .items() of a scalar override, or item
\* assignment into a scalar base entry, raises
settings_merge_raises(base, override) ==
    \E c \in DOMAIN base \cap DOMAIN override :
        \/ ~IsDict(override[c])
        \/ ~IsDict(base[c]) /\ DOMAIN override[c].d # {}

\* advanced_settings.py:317-328: for every category of the base that the
\* override has, the override's entries are written into the base's section
settings_merge_configs(base, override) ==
    [c \in DOMAIN base |->
        IF c \in DOMAIN override /\ IsDict(base[c]) /\ IsDict(override[c])
        THEN Dict(DictUpdate(base[c].d, override[c].d))
        ELSE base[c]]

\* core.py:153-155: dict.update of a section that is a scalar, or with a
\* scalar, raises
effective_config_raises(config, adv) ==
    /\ DOMAIN adv # {}
    /\ \E c \in DOMAIN config \cap DOMAIN adv : ~IsDict(config[c]) \/ ~IsDict(adv[c])

\* core.py:151-155: when advanced_settings is not empty, every category of the
\* profile that it names is updated with its entries
effective_config_merge(config, adv) ==
    IF DOMAIN adv = {} THEN config
    ELSE [c \in DOMAIN config |->
            IF c \in DOMAIN adv /\ IsDict(config[c]) /\ IsDict(adv[c])
            THEN Dict(DictUpdate(config[c].d, adv[c].d))
            ELSE config[c]]

MergeImpls == {"advanced_config", "advanced_settings", "core"}

merge_raises(impl, base, override) ==
    CASE impl = "advanced_config" -> FALSE
      [] impl = "advanced_settings" -> settings_merge_raises(base, override)
      [] impl = "core" -> effective_config_raises(base, override)

merge(impl, base, override) ==
    CASE impl = "advanced_config" -> config_merge_configs(base, override)
      [] impl = "advanced_settings" -> settings_merge_configs(base, override)
      [] impl = "core" -> effective_config_merge(base, override)

\* the orchestrator is constructed and stays as it is while a helper function
\* is under check
InitHelpers ==
    /\ init(20, FALSE, "standard", EmptyDoc, "Linux", "wlan0")
    /\ ap = ApIdle

InitMerge ==
    /\ InitHelpers
    /\ \E impl \in MergeImpls, base \in MergeDocs, override \in MergeDocs :
          fn = [name |-> "merge", impl |-> impl, base |-> base, override |-> override,
                merges |-> 0, raised |-> FALSE, once |-> base, result |-> base]

\* the override is merged into the profile, which is modified in place
merge_step ==
    /\ fn.name = "merge"
    /\ fn.merges < 2
    /\ ~fn.raised
    /\ fn' = IF merge_raises(fn.impl, fn.result, fn.override)
             THEN [fn EXCEPT !.raised = TRUE]
             ELSE LET r == merge(fn.impl, fn.result, fn.override)
                  IN [fn EXCEPT !.merges = @ + 1,
                                !.once = IF fn.merges = 0 THEN r ELSE @,
                                !.result = r]
    /\ UNCHANGED <<orch_vars, ap>>

NextMerge == merge_step

SpecMerge == InitMerge /\ [][NextMerge]_vars

\* C13: merging an override document into a profile is idempotent: for every
\* profile P and override O, merging O into P twice yields the same profile as
\* merging it once.
C13_MergeIdempotent ==
    (fn.name = "merge" /\ fn.merges = 2) => fn.result = fn.once

\* C13 witness: an override that changes the profile (a nested entry replaced
\* and a category added) has been merged twice
C13_Witness ==
    /\ fn.name = "merge" /\ fn.merges = 2
    /\ fn.once # fn.base
    /\ fn.once # fn.override
    /\ \E c \in DOMAIN fn.base \cap DOMAIN fn.override :
          IsDict(fn.base[c]) /\ IsDict(fn.override[c])
             /\ \E k \in DOMAIN fn.base[c].d \cap DOMAIN fn.override[c].d :
                   fn.base[c].d[k] # fn.override[c].d[k]

-----------------------------------------------------------------------------
\* SpecMtu: find_optimal_mtu, network/utils.py:216-344

\* utils.py:235, 241-243, 276-278: the standard MTU (upper end of the search
\* and default result) and the lower end of the search
StandardMtu == 1500
MinTestMtu == 1200
\* utils.py:247, 281: the width at which the binary search stops; utils.py:322:
\* the step of the macOS scan
SearchWidth == 8
ScanStep == 8
\* utils.py:322: the macOS scan ends above this value
ScanFloor == 1400

\* probes the binary search may issue in the model before it is cut off
MaxMtuProbes == 8

\* the outcome of one ping: the output reports that the packet is too large,
\* the output reports success, or the command produced no output (it could
\* not be run, common.py:73-75)
ProbeOutcomes == {"too_large", "ok", "no_output"}

\* utils.py:255, 289, 328: "if stdout and (<marker> in stdout)"
ProbeTooLarge(outcome) == outcome = "too_large"

\* the MTU of the first interface ifconfig lists on macOS (utils.py:311-316):
\* a tunnel, an ethernet interface, the loopback interface
MacosCurrentMtus == {1000, 1500, 16384}

\* variant of MtuSearchContinues: the search narrows the interval down to one
\* value
MtuSearchContinuesToOne(max_mtu, min_mtu) == max_mtu - min_mtu > 1

\* utils.py:247, 281  while max_mtu - min_mtu > 8
MtuSearchContinues(max_mtu, min_mtu) == max_mtu - min_mtu > SearchWidth

\* utils.py:242-244, 276-278 (binary search), 316-319 (macOS scan), 235 (no
\* implementation for the platform)
MtuCall(os, current_mtu) ==
    [name |-> "mtu", os |-> os,
     phase |-> CASE os \in {"Windows", "Linux"} -> "search"
                 [] os = "Darwin" -> "scan"
                 [] OTHER -> "unsupported",
     max_mtu |-> StandardMtu, min_mtu |-> MinTestMtu,
     optimal_mtu |-> IF os = "Darwin" THEN current_mtu ELSE StandardMtu,
     test_mtu |-> current_mtu, probes |-> 0,
     last_width |-> StandardMtu - MinTestMtu, result |-> 0]

InitMtu ==
    /\ InitHelpers
    /\ \/ \E os \in OsTypes \ {"Darwin"} : fn = MtuCall(os, StandardMtu)
       \/ \E m \in MacosCurrentMtus : fn = MtuCall("Darwin", m)

\* utils.py:247-262, 281-296: one pass of the binary search
mtu_probe(outcome) ==
    /\ fn.name = "mtu" /\ fn.phase = "search"
    /\ MtuSearchContinues(fn.max_mtu, fn.min_mtu)
    /\ fn.probes < MaxMtuProbes
    /\ LET test_mtu == (fn.max_mtu + fn.min_mtu) \div 2
       IN fn' = IF ProbeTooLarge(outcome)
                THEN [fn EXCEPT !.max_mtu = test_mtu, !.probes = @ + 1,
                                !.last_width = fn.max_mtu - fn.min_mtu]
                ELSE [fn EXCEPT !.min_mtu = test_mtu, !.optimal_mtu = test_mtu,
                                !.probes = @ + 1,
                                !.last_width = fn.max_mtu - fn.min_mtu]
    /\ UNCHANGED <<orch_vars, ap>>

\* utils.py:322-334: one pass of the macOS scan, downward from the current MTU
mtu_macos_probe(outcome) ==
    /\ fn.name = "mtu" /\ fn.phase = "scan"
    /\ fn.test_mtu > ScanFloor
    /\ fn' = IF ProbeTooLarge(outcome)
             THEN [fn EXCEPT !.test_mtu = @ - ScanStep, !.probes = @ + 1]
             ELSE [fn EXCEPT !.optimal_mtu = fn.test_mtu, !.probes = @ + 1,
                             !.phase = "scanned"]
    /\ UNCHANGED <<orch_vars, ap>>

\* utils.py:264, 298, 338 return optimal_mtu; 235 return 1500
mtu_return ==
    /\ fn.name = "mtu"
    /\ \/ fn.phase = "search" /\ ~MtuSearchContinues(fn.max_mtu, fn.min_mtu)
       \/ fn.phase = "scan" /\ fn.test_mtu <= ScanFloor
       \/ fn.phase = "scanned"
       \/ fn.phase = "unsupported"
    /\ fn' = [fn EXCEPT !.phase = "returned",
                        !.result = IF fn.phase = "unsupported" THEN StandardMtu
                                   ELSE fn.optimal_mtu]
    /\ UNCHANGED <<orch_vars, ap>>

MtuProbe == \E outcome \in ProbeOutcomes : mtu_probe(outcome)
MtuMacosProbe == \E outcome \in ProbeOutcomes : mtu_macos_probe(outcome)

NextMtu ==
    \/ MtuProbe
    \/ MtuMacosProbe
    \/ mtu_return

SpecMtu == InitMtu /\ [][NextMtu]_vars

\* C14: find_optimal_mtu returns a value in [1200, 1500] for every platform
\* and every pattern of probe outcomes, including probes that fail to run and
\* interfaces whose current MTU is outside that range.
C14_MtuInRange ==
    (fn.name = "mtu" /\ fn.phase = "returned")
        => (MinTestMtu <= fn.result /\ fn.result <= StandardMtu)

\* C15: the MTU binary search terminates for every pattern of probe outcomes:
\* every probe narrows the interval, the search stops as soon as
\* high - low <= 8 (and not before), and it issues at most 7 probes.
C15_MtuSearchTerminates ==
    (fn.name = "mtu" /\ fn.os \in {"Windows", "Linux"})
        => /\ fn.probes <= 7
           /\ fn.probes > 0 => /\ fn.max_mtu - fn.min_mtu < fn.last_width
                               /\ fn.last_width > SearchWidth
           /\ fn.phase = "returned" => fn.max_mtu - fn.min_mtu <= SearchWidth
           /\ (fn.phase = "search" /\ fn.max_mtu - fn.min_mtu <= SearchWidth)
                => ~ENABLED MtuProbe

\* C15 witness: the search has returned a value below 1400 after every probe
\* above it reported a packet too large
C15_Witness ==
    /\ fn.name = "mtu" /\ fn.os = "Linux" /\ fn.phase = "returned"
    /\ fn.probes = 6 /\ fn.result < 1400 /\ fn.result > MinTestMtu

\* C24: the binary search returns its final low, the last size confirmed
\* deliverable: the value returned is below every size whose probe reported
\* the packet too large (max_mtu is the least such size once a probe failed).
C24_MtuSearchReturnsLow ==
    (fn.name = "mtu" /\ fn.os \in {"Windows", "Linux"} /\ fn.phase = "returned")
        => /\ fn.result = fn.min_mtu
           /\ fn.max_mtu < StandardMtu => fn.result < fn.max_mtu

-----------------------------------------------------------------------------
\* SpecChannel: find_macos_best_channel (platform/macos.py:114-188) and
\* find_windows_best_channel (platform/windows.py:150-198)

\* networks in one scan
MaxNetworks == 3

\* macos.py:124: the channels of the usage table
UsageChannels == 1..11
\* macos.py:159, windows.py:184: the preferred non-overlapping channels, in order
PrimaryChannels == <<1, 6, 11>>
\* macos.py:188, windows.py:163, 181, 198: the default channel
DefaultChannel == 6

\* channels on which a scan reports networks (36: a 5 GHz network)
NetChannels == {1, 3, 6, 9, 11, 36}

SeqsUpTo(S, n) == UNION {[1..m -> S] : m \in 0..n}

\* the least element of a non-empty set of numbers
MinOf(S) == CHOOSE x \in S : \A y \in S : x <= y

\* the first element of the sequence q that is in S (q has one)
FirstIn(q, S) == q[MinOf({i \in DOMAIN q : q[i] \in S})]

Abs(x) == IF x < 0 THEN -x ELSE x

\* macos.py:137-144: one network line; usage is kept in half units (a network
\* counts 2 on its own channel and 1 on the channels up to 2 away, within
\* 1..11); channels outside 1..11 are skipped
macos_count(usage, channel) ==
    IF channel \notin UsageChannels THEN usage
    ELSE [c \in UsageChannels |->
            IF c = channel THEN usage[c] + 2
            ELSE IF Abs(c - channel) <= 2 THEN usage[c] + 1
            ELSE usage[c]]

\* macos.py:148-165: the channels of least usage; among them the first of
\* 1, 6, 11, otherwise the first one
macos_select(usage) ==
    LET min_usage == MinOf({usage[c] : c \in UsageChannels})
        best_channels == {c \in UsageChannels : usage[c] = min_usage}
        preferred == best_channels \cap {PrimaryChannels[i] : i \in DOMAIN PrimaryChannels}
    IN IF preferred # {} THEN FirstIn(PrimaryChannels, preferred)
       ELSE MinOf(best_channels)

\* macos.py:168-182: without airport output, the "Preferred Channels" of
\* system_profiler decide: the first of them that is 1, 6 or 11, otherwise the
\* first one; 188: channel 6 when there are none
macos_fallback(preferred) ==
    IF preferred = << >> THEN DefaultChannel
    ELSE IF \E i \in DOMAIN preferred : preferred[i] \in {1, 6, 11}
    THEN FirstIn(preferred, {1, 6, 11})
    ELSE preferred[1]

\* windows.py:184-190: for each of 1, 6, 11 the number of networks at most 2
\* channels away
windows_primary_count(count, channel) ==
    LET Sum[S \in SUBSET DOMAIN count] ==
            IF S = {} THEN 0
            ELSE LET ch == CHOOSE x \in S : TRUE
                 IN (IF Abs(channel - ch) <= 2 THEN count[ch] ELSE 0) + Sum[S \ {ch}]
    IN Sum[DOMAIN count]

\* windows.py:179-195: channel 6 without networks; otherwise the first of
\* 1, 6, 11 with the least count
windows_select(count) ==
    IF \A ch \in DOMAIN count : count[ch] = 0 THEN DefaultChannel
    ELSE LET least == MinOf({windows_primary_count(count, PrimaryChannels[i]) :
                               i \in DOMAIN PrimaryChannels})
         IN PrimaryChannels[MinOf({i \in DOMAIN PrimaryChannels :
                 windows_primary_count(count, PrimaryChannels[i]) = least})]

\* macos.py:174-176: lists of preferred channels system_profiler may report
PreferredLists == {<< >>, <<36, 40>>, <<2, 11>>}

\* a call: the platform, whether the scan command produced output, the
\* channels of the networks it lists, and (macOS) the preferred channels
ChannelCall(os, scan, nets, preferred) ==
    [name |-> "channel", os |-> os, scan |-> scan, nets |-> nets,
     preferred |-> preferred, k |-> 1,
     usage |-> [c \in UsageChannels |-> 0],
     count |-> [c \in NetChannels |-> 0],
     phase |-> "counting", result |-> 0]

InitChannel ==
    /\ InitHelpers
    /\ \/ \E os \in {"Windows", "Darwin"}, nets \in SeqsUpTo(NetChannels, MaxNetworks) :
             fn = ChannelCall(os, "ok", nets, << >>)
       \/ fn = ChannelCall("Windows", "failed", << >>, << >>)
       \/ \E preferred \in PreferredLists :
             fn = ChannelCall("Darwin", "failed", << >>, preferred)

\* macos.py:131-146: the next network line of the airport output
macos_count_network ==
    /\ fn.name = "channel" /\ fn.os = "Darwin" /\ fn.phase = "counting"
    /\ fn.scan = "ok" /\ fn.k <= Len(fn.nets)
    /\ fn' = [fn EXCEPT !.usage = macos_count(@, fn.nets[fn.k]), !.k = @ + 1]
    /\ UNCHANGED <<orch_vars, ap>>

\* macos.py:148-165: every line is counted (none for a header-only output)
macos_return ==
    /\ fn.name = "channel" /\ fn.os = "Darwin" /\ fn.phase = "counting"
    /\ fn.scan = "ok" /\ fn.k > Len(fn.nets)
    /\ fn' = [fn EXCEPT !.phase = "returned", !.result = macos_select(fn.usage)]
    /\ UNCHANGED <<orch_vars, ap>>

\* macos.py:167-188: airport is missing or printed nothing
macos_fallback_return ==
    /\ fn.name = "channel" /\ fn.os = "Darwin" /\ fn.phase = "counting"
    /\ fn.scan = "failed"
    /\ fn' = [fn EXCEPT !.phase = "returned", !.result = macos_fallback(fn.preferred)]
    /\ UNCHANGED <<orch_vars, ap>>

\* windows.py:172-177: the next "Channel : n" of the netsh output
windows_count_network ==
    /\ fn.name = "channel" /\ fn.os = "Windows" /\ fn.phase = "counting"
    /\ fn.scan = "ok" /\ fn.k <= Len(fn.nets)
    /\ fn' = [fn EXCEPT !.count[fn.nets[fn.k]] = @ + 1, !.k = @ + 1]
    /\ UNCHANGED <<orch_vars, ap>>

\* windows.py:179-195
windows_return ==
    /\ fn.name = "channel" /\ fn.os = "Windows" /\ fn.phase = "counting"
    /\ fn.scan = "ok" /\ fn.k > Len(fn.nets)
    /\ fn' = [fn EXCEPT !.phase = "returned", !.result = windows_select(fn.count)]
    /\ UNCHANGED <<orch_vars, ap>>

\* windows.py:161-163: netsh failed
windows_failed_return ==
    /\ fn.name = "channel" /\ fn.os = "Windows" /\ fn.phase = "counting"
    /\ fn.scan = "failed"
    /\ fn' = [fn EXCEPT !.phase = "returned", !.result = DefaultChannel]
    /\ UNCHANGED <<orch_vars, ap>>

NextChannel ==
    \/ macos_count_network
    \/ macos_return
    \/ macos_fallback_return
    \/ windows_count_network
    \/ windows_return
    \/ windows_failed_return

SpecChannel == InitChannel /\ [][NextChannel]_vars

\* C16: find_best_channel returns exactly 6 whenever the scan contains no
\* networks (empty scan, header-only scan output, or scan command failure), on
\* every platform.
C16_DefaultChannelWithoutNetworks ==
    (fn.name = "channel" /\ fn.phase = "returned" /\ fn.nets = << >>)
        => fn.result = 6

\* the weighted count of a channel, in half units: every network counts 2 on
\* its own channel, 1 on the channels 1 or 2 away, 0 beyond
RECURSIVE WeightedCount(_, _)
WeightedCount(nets, c) ==
    IF nets = << >> THEN 0
    ELSE (IF Head(nets) = c THEN 2
          ELSE IF Abs(Head(nets) - c) <= 2 THEN 1 ELSE 0)
         + WeightedCount(Tail(nets), c)

\* C17: for a non-empty scan find_best_channel returns a channel whose
\* weighted count is minimal over all channels, and among the minimal channels
\* the first of 1, 6, 11 that is minimal.
C17_BestChannelIsMinimal ==
    (fn.name = "channel" /\ fn.phase = "returned" /\ fn.nets # << >>)
        => LET least == MinOf({WeightedCount(fn.nets, c) : c \in UsageChannels})
               minimal == {c \in UsageChannels : WeightedCount(fn.nets, c) = least}
           IN /\ fn.result \in minimal
              /\ minimal \cap {1, 6, 11} # {}
                   => fn.result = FirstIn(PrimaryChannels, minimal)

-----------------------------------------------------------------------------
\* Congestion and interference analysis: core.py _analyze_network_congestion
\* (652-778), _check_for_interference (780-978) and windows.py
\* analyze_windows_network_congestion (493-594).  Percentages are kept in
\* hundredths of a percent (30.0 is 3000); latencies are whole milliseconds.

Max(a, b) == IF a >= b THEN a ELSE b

RECURSIVE SumSeq(_)
SumSeq(q) == IF q = << >> THEN 0 ELSE Head(q) + SumSeq(Tail(q))

\* the documented defaults: core.py:775/778 and windows.py:515/591/594,
\* core.py:975/978
DefaultCongestion == 3000
DefaultInterference == 2000

\* network_utils.py:118-149: measure_latency returns min/avg/max of the ping
\* summary, and the dict of zeros when the probe fails
LatencyResults ==
    {[ok |-> FALSE, min |-> 0, avg |-> 0, max |-> 0],
     [ok |-> TRUE, min |-> 5, avg |-> 8, max |-> 10],
     [ok |-> TRUE, min |-> 20, avg |-> 105, max |-> 400],
     [ok |-> TRUE, min |-> 300, avg |-> 1000, max |-> 1500]}

\* core.py:659: "if latency_results:" tests the dict, which always has its
\* three keys
LatencyResultsTruthy(lat) == TRUE

\* core.py:661-665
JitterFactor(lat) == Min(10000, (lat.max - lat.min) * 100)

\* core.py:670 without its lower clamp
LatencyFactorUnclamped(lat) == Min(10000, ((lat.avg - 10) * 10000) \div 190)

\* core.py:670
LatencyFactor(lat) == Min(10000, Max(0, ((lat.avg - 10) * 10000) \div 190))

\* the counters of one interface: unreadable, or packets, errors and drops
InterfaceStats ==
    {[ok |-> FALSE, packets |-> 0, errors |-> 0, drops |-> 0]}
    \cup [ok : {TRUE}, packets : {0, 100}, errors : {0, 5, 250}, drops : {0, 250}]

\* core.py:696, 718-719, 747 and windows.py:551: min(100, part / max(1, whole) * 100)
PercentDivisor(whole) == Max(1, whole)

PercentOf(part, whole) == Min(10000, (part * 10000) \div PercentDivisor(whole))

\* core.py:676-748: the factors the interface statistics add, per platform
StatsFactors(os, iface, s) ==
    IF iface = NoInterface \/ ~s.ok \/ s.packets <= 0 THEN << >>
    ELSE IF os = "Windows" THEN <<PercentOf(s.drops, s.packets)>>
    ELSE IF os = "Linux" THEN <<PercentOf(s.errors, s.packets),
                               PercentOf(s.drops, s.packets)>>
    ELSE IF os = "Darwin" THEN <<PercentOf(s.errors, s.packets)>>
    ELSE << >>

\* the divisors core.py:696/718/719/747 divide by
StatsDivisors(os, iface, s) ==
    IF StatsFactors(os, iface, s) # << >> THEN {PercentDivisor(s.packets)} ELSE {}

\* the system load: unreadable, or the one-minute load average in hundredths
\* (Unix) or the CPU utilisation in percent (Windows)
LoadReadings ==
    {[ok |-> FALSE, load |-> 0, cpu |-> 0]}
    \cup [ok : {TRUE}, load : {50, 300, 900}, cpu : {50, 90}]

\* core.py:754: os.getloadavg exists on the Unix builds of Python
HasLoadAvg(os) == os # "Windows"

\* core.py:754-765
LoadFactors(os, l) ==
    IF ~l.ok THEN << >>
    ELSE IF HasLoadAvg(os)
         THEN <<Min(10000, Max(0, (l.load - 100) * 25)) \div 2>>
    ELSE IF os = "Windows" /\ l.cpu > 80 THEN <<5000>>
    ELSE << >>

\* core.py:770-775, 971-975 and windows.py:588-591: the mean of the factors,
\* or the default when there is none
AverageOr(factors, default) ==
    IF factors # << >> THEN SumSeq(factors) \div Len(factors) ELSE default

\* the divisor core.py:772/972 and windows.py:589 divide by
AverageDivisors(factors) == IF factors # << >> THEN {Len(factors)} ELSE {}

\* core.py:787-913: the networks seen on the own channel (scan unreadable, or
\* their number)
ChannelScans ==
    {[ok |-> FALSE, count |-> 0]} \cup [ok : {TRUE}, count : {0, 3, 12}]

\* core.py:824/862/909 and 912-913
ChannelFactors(os, scan) ==
    IF os \in {"Windows", "Linux", "Darwin"} /\ scan.ok
          /\ Min(10000, scan.count * 1000) > 0
    THEN <<Min(10000, scan.count * 1000)>>
    ELSE << >>

\* core.py:627-651: a signal sample is a percentage
SignalSamples == {1, 50, 90, 100}

\* core.py:929-935: lo and hi are the least and greatest of the three samples
VariationFactors(lo, hi) ==
    IF hi - lo > 0 THEN <<Min(10000, (hi - lo) * 500)>> ELSE << >>

\* core.py:944-959: the channel read from netsh (0: not reported)
InterfaceChannels == {0, 6, 36}

\* core.py:941-965
NonWifiFactors(os, channel) ==
    IF os = "Windows" /\ channel # 0 /\ 1 <= channel /\ channel <= 13
    THEN <<3000>> ELSE << >>

\* windows.py:518-521 measure_windows_jitter (236-297) in milliseconds, 0 on
\* failure
WindowsJitters == {0, 12, 50}

\* windows.py:521
WindowsJitterFactor(jitter) == Min(10000, jitter * 333)

\* windows.py:299-356 measure_windows_packet_loss: the loss percentage ping
\* reports, 100 when the host is unreachable, 0 on failure
WindowsPacketLosses == {0, 25, 100}

\* windows.py:559-567: the established TCP connections (unreadable, or count)
TcpCounts == {[ok |-> FALSE, count |-> 0]} \cup [ok : {TRUE}, count : {0, 40, 500}]

\* windows.py:566
TcpFactors(t) ==
    IF t.ok THEN <<Min(10000, (t.count * 5000) \div 100)>> ELSE << >>

\* windows.py:573-583: the processor-time counter (unreadable, or percent)
CpuUsages == {[ok |-> FALSE, cpu |-> 0]} \cup [ok : {TRUE}, cpu : {50, 100}]

\* windows.py:581-583
CpuFactors(c) ==
    IF c.ok /\ c.cpu > 70 THEN <<((c.cpu - 70) * 333) \div 2>> ELSE << >>

\* one analysis in progress: the measurements it has read, the factors
\* collected so far, the divisors it divided by, and whether every
\* sub-measurement so far failed
AnalysisCall(name, phase) ==
    [name |-> name, phase |-> phase, inputs |-> << >>, factors |-> << >>,
     divisors |-> {}, failed |-> TRUE, result |-> 0]

InitCongestion ==
    /\ \E os \in OsTypes, iface \in {NoInterface, "wlan0"} :
          init(20, FALSE, "standard", EmptyDoc, os, iface)
    /\ ap = ApIdle
    /\ \/ fn = AnalysisCall("congestion", "latency")
       \/ fn = AnalysisCall("interference", "channel")
       \/ os_type = "Windows" /\ fn = AnalysisCall("windows_congestion", "interface")

\* a step of an analysis: read the measurement input, add the factors fs
\* computed with the divisors ds, note whether the sub-measurement failed, and
\* go to the next phase
analysis_step(name, phase, input, fs, ds, failed, next) ==
    /\ fn.name = name
    /\ fn.phase = phase
    /\ fn' = [fn EXCEPT !.inputs = Append(fn.inputs, input),
                        !.factors = fn.factors \o fs,
                        !.divisors = fn.divisors \cup ds,
                        !.failed = fn.failed /\ failed,
                        !.phase = next]
    /\ UNCHANGED <<orch_vars, ap>>

\* a return of an analysis
analysis_return(name, phase, value, ds) ==
    /\ fn.name = name
    /\ fn.phase = phase
    /\ fn' = [fn EXCEPT !.phase = "returned", !.result = value,
                        !.divisors = fn.divisors \cup ds]
    /\ UNCHANGED <<orch_vars, ap>>

\* core.py:658-671
congestion_latency(lat) ==
    analysis_step("congestion", "latency", lat,
                  IF LatencyResultsTruthy(lat)
                  THEN <<JitterFactor(lat), LatencyFactor(lat)>> ELSE << >>,
                  {}, ~lat.ok, "stats")

\* core.py:674-750
congestion_stats(s) ==
    analysis_step("congestion", "stats", s,
                  StatsFactors(os_type, active_interface, s),
                  StatsDivisors(os_type, active_interface, s),
                  active_interface = NoInterface \/ ~s.ok, "load")

\* core.py:752-767
congestion_load(l) ==
    analysis_step("congestion", "load", l, LoadFactors(os_type, l), {}, ~l.ok,
                  "average")

\* core.py:769-775
congestion_return ==
    analysis_return("congestion", "average",
                    AverageOr(fn.factors, DefaultCongestion),
                    AverageDivisors(fn.factors))

\* core.py:785-915
interference_channel(scan) ==
    analysis_step("interference", "channel", scan, ChannelFactors(os_type, scan),
                  {}, ~scan.ok, "variation")

\* core.py:917-937
interference_variation(lo, hi) ==
    analysis_step("interference", "variation", <<lo, hi>>, VariationFactors(lo, hi),
                  {}, lo = hi, "non_wifi")

\* core.py:939-968
interference_non_wifi(channel) ==
    analysis_step("interference", "non_wifi", channel, NonWifiFactors(os_type, channel),
                  {}, NonWifiFactors(os_type, channel) = << >>, "average")

\* core.py:970-975
interference_return ==
    analysis_return("interference", "average",
                    AverageOr(fn.factors, DefaultInterference),
                    AverageDivisors(fn.factors))

\* windows.py:507-512: the interface is given or found
windows_congestion_interface ==
    analysis_step("windows_congestion", "interface", "up", << >>, {}, TRUE, "jitter")

\* windows.py:513-515: no interface is up
windows_congestion_no_interface ==
    analysis_return("windows_congestion", "interface", DefaultCongestion, {})

\* windows.py:517-522
windows_congestion_jitter(jitter) ==
    analysis_step("windows_congestion", "jitter", jitter,
                  <<WindowsJitterFactor(jitter)>>, {}, jitter = 0, "loss")

\* windows.py:524-527
windows_congestion_loss(loss) ==
    analysis_step("windows_congestion", "loss", loss, <<loss * 100>>, {}, loss = 0,
                  "stats")

\* windows.py:529-555
windows_congestion_stats(s) ==
    analysis_step("windows_congestion", "stats", s,
                  IF s.ok /\ s.packets > 0
                  THEN <<PercentOf(s.errors + s.drops, s.packets)>> ELSE << >>,
                  IF s.ok /\ s.packets > 0
                  THEN {PercentDivisor(s.packets)} ELSE {},
                  ~s.ok, "tcp")

\* windows.py:557-570
windows_congestion_tcp(t) ==
    analysis_step("windows_congestion", "tcp", t, TcpFactors(t), {}, ~t.ok, "cpu")

\* windows.py:572-586
windows_congestion_cpu(c) ==
    analysis_step("windows_congestion", "cpu", c, CpuFactors(c), {}, ~c.ok,
                  "average")

\* windows.py:588-591
windows_congestion_return ==
    analysis_return("windows_congestion", "average",
                    AverageOr(fn.factors, DefaultCongestion),
                    AverageDivisors(fn.factors))

NextCongestion ==
    \/ \E lat \in LatencyResults : congestion_latency(lat)
    \/ \E s \in InterfaceStats : congestion_stats(s)
    \/ \E l \in LoadReadings : congestion_load(l)
    \/ congestion_return
    \/ \E scan \in ChannelScans : interference_channel(scan)
    \/ \E lo \in SignalSamples, hi \in SignalSamples :
          lo <= hi /\ interference_variation(lo, hi)
    \/ \E channel \in InterfaceChannels : interference_non_wifi(channel)
    \/ interference_return
    \/ windows_congestion_interface
    \/ windows_congestion_no_interface
    \/ \E jitter \in WindowsJitters : windows_congestion_jitter(jitter)
    \/ \E loss \in WindowsPacketLosses : windows_congestion_loss(loss)
    \/ \E s \in InterfaceStats : windows_congestion_stats(s)
    \/ \E t \in TcpCounts : windows_congestion_tcp(t)
    \/ \E c \in CpuUsages : windows_congestion_cpu(c)
    \/ windows_congestion_return

SpecCongestion == InitCongestion /\ [][NextCongestion]_vars

\* C18: every value the congestion and the interference analysis return lies
\* in [0, 100] (0..10000 hundredths), and no division of either analysis has
\* the divisor 0, whatever was measured and whichever sub-measurements failed.
C18_AnalysisInRange ==
    fn.name \in {"congestion", "interference", "windows_congestion"}
    => /\ 0 \notin fn.divisors
       /\ fn.phase = "returned" => 0 <= fn.result /\ fn.result <= 10000

C18_Witness ==
    /\ fn.name = "congestion"
    /\ fn.phase = "returned"
    /\ ~fn.failed
    /\ Len(fn.factors) >= 3
    /\ fn.divisors # {}
    /\ fn.result > 0

\* C19: a congestion analysis in which the latency probe failed and the
\* interface statistics and the load were unavailable returns 30.0, and an
\* interference analysis that measured no factor returns 20.0.
C19_DefaultsWhenNothingMeasured ==
    /\ fn.name = "congestion" /\ fn.phase = "returned" /\ fn.failed
          => fn.result = DefaultCongestion
    /\ fn.name = "interference" /\ fn.phase = "returned" /\ fn.failed
          => fn.result = DefaultInterference

\* the factors of the sub-measurements of a congestion analysis that succeeded
MeasuredCongestionFactors(inputs) ==
    (IF inputs[1].ok THEN <<JitterFactor(inputs[1]), LatencyFactor(inputs[1])>>
     ELSE << >>)
    \o StatsFactors(os_type, active_interface, inputs[2])
    \o LoadFactors(os_type, inputs[3])

\* the factors of the sub-measurements of an interference analysis that
\* succeeded, a factor of value 0 included
MeasuredInterferenceFactors(inputs) ==
    (IF os_type \in {"Windows", "Linux", "Darwin"} /\ inputs[1].ok
     THEN <<Min(10000, inputs[1].count * 1000)>> ELSE << >>)
    \o <<Min(10000, (inputs[2][2] - inputs[2][1]) * 500)>>
    \o NonWifiFactors(os_type, inputs[3])

\* C23: the congestion and the interference composite are the arithmetic mean
\* of exactly the factors that were successfully measured: a failed
\* measurement adds no factor, and a measured factor of value 0 is counted.
C23_MeanOfMeasuredFactors ==
    /\ fn.name = "congestion" /\ fn.phase = "returned"
          => fn.result = AverageOr(MeasuredCongestionFactors(fn.inputs),
                                   DefaultCongestion)
    /\ fn.name = "interference" /\ fn.phase = "returned"
          => fn.result = AverageOr(MeasuredInterferenceFactors(fn.inputs),
                                   DefaultInterference)

-----------------------------------------------------------------------------
\* The platform dispatcher: network/platform/dispatcher.py.  Every capability
\* resolves the platform, imports the implementation of that platform inside
\* a try block and calls it; "except Exception" returns the default.

Capabilities ==
    {"set_dns_servers", "get_wifi_signal_strength", "find_best_wifi_channel",
     "measure_jitter", "measure_packet_loss", "measure_bandwidth",
     "analyze_network_congestion", "clear_network_buffers",
     "get_detailed_network_interfaces"}

\* dispatcher.py:19-26 get_platform, on the value of platform.system()
get_platform(system) ==
    IF system = "Darwin" THEN "macos"
    ELSE IF system = "Windows" THEN "windows"
    ELSE IF system = "Linux" THEN "linux"
    ELSE "unknown"

\* the functions the platform modules define: windows.py defines one per
\* capability, macos.py defines three (macos.py:12, 76, 114), and there is no
\* module signal_booster.network.platform.linux
Implemented(platform_name, capability) ==
    \/ platform_name = "windows"
    \/ /\ platform_name = "macos"
       /\ capability \in {"set_dns_servers", "get_wifi_signal_strength",
                          "find_best_wifi_channel"}

\* dispatcher.py:136-143, 172-179, 208-215, 244-251: on macOS these fall back
\* to the Linux implementation when the macOS import fails
FallsBackToLinux(capability) ==
    capability \in {"measure_jitter", "measure_packet_loss", "measure_bandwidth",
                    "analyze_network_congestion"}

\* dispatcher.py:275-280, 307-312: on macOS these return the default when the
\* macOS import fails
ReturnsOnImportError(capability) ==
    capability \in {"clear_network_buffers", "get_detailed_network_interfaces"}

\* dispatcher.py:51-56, 78-84, 106-112, 144-148, 180-184, 197/216-220,
\* 252-255, 281-287, 313-319: the value returned for an unsupported platform
\* and by the exception handler (congestion in hundredths of a percent)
DispatchDefault(capability) ==
    CASE capability = "set_dns_servers" -> FALSE
      [] capability = "get_wifi_signal_strength" -> 60
      [] capability = "find_best_wifi_channel" -> 6
      [] capability = "measure_jitter" -> 0
      [] capability = "measure_packet_loss" -> 0
      [] capability = "measure_bandwidth" -> [download |-> 0, upload |-> 0]
      [] capability = "analyze_network_congestion" -> DefaultCongestion
      [] capability = "clear_network_buffers" -> FALSE
      [] capability = "get_detailed_network_interfaces" -> << >>

\* values an implementation can return
ImplValues(capability) ==
    CASE capability = "set_dns_servers" -> {TRUE, FALSE}
      [] capability = "get_wifi_signal_strength" -> {-1, 75}
      [] capability = "find_best_wifi_channel" -> {1, 11}
      [] capability = "measure_jitter" -> {0, 12}
      [] capability = "measure_packet_loss" -> {0, 100}
      [] capability = "measure_bandwidth" -> {[download |-> 50, upload |-> 10]}
      [] capability = "analyze_network_congestion" -> {0, 4500}
      [] capability = "clear_network_buffers" -> {TRUE, FALSE}
      [] capability = "get_detailed_network_interfaces" -> {<< >>, <<"Wi-Fi">>}

\* the outer handler catches only ImportError
HandlerCatchesImportErrorOnly(exc) == exc = "ImportError"

\* dispatcher.py:54, 81, 109, 146, 182, 218, 253, 285, 317: "except Exception"
\* catches the ImportError of a missing implementation and every Exception an
\* implementation raises
HandlerCatches(exc) == exc \in {"ImportError", "Exception"}

\* one call of a capability: the platform it resolved, the exception in
\* flight, whether the platform was unknown, unimplemented or its
\* implementation raised, and the value returned (a one-element sequence)
DispatchCall(capability, system) ==
    [name |-> "dispatch", capability |-> capability, system |-> system,
     platform_name |-> "unresolved", phase |-> "resolve", exc |-> "none",
     failed |-> FALSE, result |-> << >>]

InitDispatch ==
    /\ InitHelpers
    /\ \E capability \in Capabilities, system \in OsTypes :
          fn = DispatchCall(capability, system)

\* platform_name = get_platform()
dispatch_resolve ==
    /\ fn.name = "dispatch"
    /\ fn.phase = "resolve"
    /\ fn' = [fn EXCEPT !.platform_name = get_platform(fn.system),
                        !.phase = "select"]
    /\ UNCHANGED <<orch_vars, ap>>

\* the else branch: the platform is not supported
dispatch_unsupported ==
    /\ fn.name = "dispatch"
    /\ fn.phase = "select"
    /\ fn.platform_name = "unknown"
    /\ fn' = [fn EXCEPT !.phase = "returned", !.failed = TRUE,
                        !.result = <<DispatchDefault(fn.capability)>>]
    /\ UNCHANGED <<orch_vars, ap>>

\* the import of the platform's implementation succeeds and the call returns
\* value
dispatch_call_returns(value) ==
    /\ fn.name = "dispatch"
    /\ fn.phase = "select"
    /\ fn.platform_name # "unknown"
    /\ Implemented(fn.platform_name, fn.capability)
    /\ fn' = [fn EXCEPT !.phase = "returned", !.result = <<value>>]
    /\ UNCHANGED <<orch_vars, ap>>

\* the import succeeds and the call raises
dispatch_call_raises ==
    /\ fn.name = "dispatch"
    /\ fn.phase = "select"
    /\ fn.platform_name # "unknown"
    /\ Implemented(fn.platform_name, fn.capability)
    /\ fn' = [fn EXCEPT !.phase = "raised", !.exc = "Exception",
                        !.failed = TRUE]
    /\ UNCHANGED <<orch_vars, ap>>

\* the import of the platform's implementation fails: on macOS the inner
\* "except ImportError" returns the default or tries the Linux implementation,
\* otherwise the ImportError reaches the outer handler
dispatch_import_error ==
    /\ fn.name = "dispatch"
    /\ fn.phase = "select"
    /\ fn.platform_name # "unknown"
    /\ ~Implemented(fn.platform_name, fn.capability)
    /\ fn' = IF fn.platform_name = "macos" /\ ReturnsOnImportError(fn.capability)
             THEN [fn EXCEPT !.phase = "returned", !.failed = TRUE,
                             !.result = <<DispatchDefault(fn.capability)>>]
             ELSE IF fn.platform_name = "macos" /\ FallsBackToLinux(fn.capability)
             THEN [fn EXCEPT !.phase = "fallback", !.failed = TRUE]
             ELSE [fn EXCEPT !.phase = "raised", !.exc = "ImportError",
                             !.failed = TRUE]
    /\ UNCHANGED <<orch_vars, ap>>

\* the macOS fallback imports the Linux implementation, which is not there
dispatch_fallback_import_error ==
    /\ fn.name = "dispatch"
    /\ fn.phase = "fallback"
    /\ ~Implemented("linux", fn.capability)
    /\ fn' = [fn EXCEPT !.phase = "raised", !.exc = "ImportError"]
    /\ UNCHANGED <<orch_vars, ap>>

\* except Exception: log and return the default; an exception the handler
\* does not catch leaves the call, which then has no further step
dispatch_except ==
    /\ fn.name = "dispatch"
    /\ fn.phase = "raised"
    /\ HandlerCatches(fn.exc)
    /\ fn' = [fn EXCEPT !.phase = "returned", !.exc = "none",
                        !.result = <<DispatchDefault(fn.capability)>>]
    /\ UNCHANGED <<orch_vars, ap>>

DispatchCallReturns ==
    \E value \in ImplValues(fn.capability) : dispatch_call_returns(value)

NextDispatch ==
    \/ dispatch_resolve
    \/ dispatch_unsupported
    \/ DispatchCallReturns
    \/ dispatch_call_raises
    \/ dispatch_import_error
    \/ dispatch_fallback_import_error
    \/ dispatch_except

SpecDispatch == InitDispatch /\ [][NextDispatch]_vars

\* C20: no exception leaves a dispatcher call (every call that has not
\* returned has a next step, and the handler catches the exception in flight),
\* and a call whose platform is unknown, has no implementation, or whose
\* implementation raised returns the default of its capability.
C20_DispatcherReturnsDefault ==
    fn.name = "dispatch"
    => /\ fn.phase # "returned" => ENABLED NextDispatch
       /\ fn.phase = "raised" => HandlerCatches(fn.exc)
       /\ fn.phase = "returned" /\ fn.failed
             => fn.result = <<DispatchDefault(fn.capability)>>

C20_Witness ==
    /\ fn.name = "dispatch"
    /\ fn.phase = "returned"
    /\ fn.failed
    /\ fn.platform_name = "windows"
    /\ fn.capability = "measure_bandwidth"
    /\ fn.result = <<[download |-> 0, upload |-> 0]>>

-----------------------------------------------------------------------------
\* The orchestrator under fair scheduling: a caller thread inside a method and
\* a monitor thread that has not ended keep taking steps (every blocking call
\* of the methods returns, and the interpreter switches threads).

caller_step(t) ==
    \/ start_level_applied(t)
    \/ start_boosting(t)
    \/ run_diagnostics(t)
    \/ start_boosting_activate(t)
    \/ stop_boosting_enter(t)
    \/ restore_original_settings(t)
    \/ monitor_join(t)
    \/ set_optimization_level_applied(t)
    \/ call_return(t)

monitor_step(i) ==
    \/ monitor_and_optimize(i)
    \/ monitor_decide(i)
    \/ monitor_applied(i)

SpecLive ==
    /\ Init
    /\ [][Next]_vars
    /\ \A t \in Callers : WF_vars(caller_step(t))
    /\ \A i \in 1..MaxCalls : WF_vars(monitor_step(i))

\* the second call of the behaviour is a stop() of the worker thread, issued
\* while the first call, a start() of the gui thread, is in progress (the
\* worker thread only enters a call while the gui thread is inside one)
StopDuringStart ==
    /\ ncalls = 2
    /\ pc["gui"] # "idle" /\ call["gui"].op = "start"
    /\ pc["worker"] # "idle" /\ call["worker"].op = "stop"

-----------------------------------------------------------------------------
\* The read accessors get_status (core.py:1972-1984) and get_current_metrics
\* (core.py:1986-2108), called by the GUI refresh (gui.py:259) while one caller
\* thread starts, re-levels and stops the booster.  fn holds the last report.

\* accessor calls in one behaviour
MaxReads == 3

\* network_utils.py:267-271: get_wifi_signal_strength is a placeholder
network_utils_signal == 0

\* network_utils.py:151-182 measure_speed: the download speed (0 on failure,
\* the 10 Mbps estimate without speedtest, or a measured speed)
MetricsDownloads == {0, 10, 30}

\* core.py:1999: random.uniform(0, 0.8) raises the whole-percent part of the
\* value by 0 or by 1
MetricsIncrements == {0, 1}

\* core.py:1993-1999: the value get_current_metrics stores and reports
metrics_optimization_value(value, running, inc) ==
    LET started == IF value = 0 /\ running THEN 25 ELSE value
    IN IF running THEN Min(98, started + inc) ELSE started

\* core.py:2028-2038: the signal is stored when the measurement is positive
metrics_signal(signal, running, measured) ==
    IF running /\ measured > 0 THEN measured ELSE signal

\* core.py:2028, 2040-2048: the download speed is stored when it is positive
metrics_speed(speed, running, download) ==
    IF running /\ download > 0 THEN download ELSE speed

Report(name, value, reads) ==
    [name |-> name, optimization_level |-> value, reads |-> reads]

InitMetrics ==
    /\ init(20, FALSE, "standard", EmptyDoc, "Linux", "wlan0")
    /\ ap = ApIdle
    /\ fn = Report("none", 0, 0)

\* core.py:1974-1984
get_status ==
    /\ fn.reads < MaxReads
    /\ fn' = Report("get_status", optimization_level_value, fn.reads + 1)
    /\ UNCHANGED <<orch_vars, ap>>

\* core.py:1992-2108
get_current_metrics(inc, download) ==
    /\ fn.reads < MaxReads
    /\ optimization_level_value' =
          metrics_optimization_value(optimization_level_value, is_running, inc)
    /\ current_signal' = metrics_signal(current_signal, is_running, network_utils_signal)
    /\ current_speed' = metrics_speed(current_speed, is_running, download)
    /\ fn' = Report("get_current_metrics", optimization_level_value', fn.reads + 1)
    /\ UNCHANGED <<active, is_running, target_speed, aggressive, optimization_level,
                   advanced_settings, flags, current_config, original_settings,
                   os_type, active_interface, pc, call, mon, ncalls, ap>>

MetricsStartCall ==
    \E ts \in Opt(TargetSpeedArgs) : start("gui", ts, None, None, None)

MetricsSetLevelCall == \E lv \in LevelArgs : set_optimization_level("gui", lv)

MetricsStopCall == stop("gui")

GetCurrentMetrics ==
    \E inc \in MetricsIncrements, download \in MetricsDownloads :
        get_current_metrics(inc, download)

NextMetrics ==
    \/ MetricsStartCall
    \/ StartBoosting
    \/ RunDiagnostics
    \/ StartBoostingActivate
    \/ MetricsSetLevelCall
    \/ SetLevelApplied
    \/ MetricsStopCall
    \/ StopBoostingEnter
    \/ CallReturn
    \/ MonitorIterate
    \/ MonitorDecide
    \/ MonitorApplied
    \/ get_status
    \/ GetCurrentMetrics

SpecMetrics == InitMetrics /\ [][NextMetrics]_vars

-----------------------------------------------------------------------------
\* Failures of the apply sequence: _apply_optimizations ends with the division
\* by target_speed (core.py:1559-1562), which raises ZeroDivisionError when the
\* caller passed target_speed = 0.  One caller thread and the monitor threads.

\* the target speeds passed to start()
FailureTargetSpeeds == {0, 50}

\* core.py:1561  (self.current_speed / self.target_speed) * 100
ApplyRaises(target) == target = 0

InitFailure ==
    /\ init(20, FALSE, "standard", EmptyDoc, "Linux", "wlan0")
    /\ ap = ApIdle
    /\ fn = FnIdle

FailureStartCall ==
    \E ts \in Opt(FailureTargetSpeeds) : start("gui", ts, None, None, None)

\* core.py:536-544: the apply sequence of start_boosting ends normally
start_boosting_applied ==
    ~ApplyRaises(target_speed) /\ start_boosting_activate("gui")

\* core.py:536: the apply sequence raises; the exception leaves start_boosting
\* and start() before the flags are set
start_boosting_raises ==
    /\ pc["gui"] = "sb_applying"
    /\ ApplyRaises(target_speed)
    /\ pc' = [pc EXCEPT !["gui"] = "ret"]
    /\ UNCHANGED <<active, is_running, target_speed, aggressive, optimization_level,
                   advanced_settings, flags, current_config, current_speed,
                   current_signal, optimization_level_value, original_settings,
                   os_type, active_interface, call, mon, ncalls, ap, fn>>

\* core.py:1720: the apply sequence of the loop ends normally
monitor_applied_normally ==
    ~ApplyRaises(target_speed) /\ MonitorApplied

\* core.py:1720, 1727-1730: the apply sequence of the loop raises; the handler
\* logs the error and the thread ends, the flags are left as they are
monitor_raises(i) ==
    /\ i \in DOMAIN mon
    /\ mon[i] = "applying"
    /\ ApplyRaises(target_speed)
    /\ mon' = [mon EXCEPT ![i] = "done"]
    /\ UNCHANGED <<active, is_running, target_speed, aggressive, optimization_level,
                   advanced_settings, flags, current_config, current_speed,
                   current_signal, optimization_level_value, original_settings,
                   os_type, active_interface, pc, call, ncalls, ap, fn>>

MonitorRaises == \E i \in DOMAIN mon : monitor_raises(i)

NextFailure ==
    \/ FailureStartCall
    \/ StartBoosting
    \/ RunDiagnostics
    \/ start_boosting_applied
    \/ start_boosting_raises
    \/ CallReturn
    \/ MonitorIterate
    \/ MonitorDecide
    \/ monitor_applied_normally
    \/ MonitorRaises

SpecFailure == InitFailure /\ [][NextFailure]_vars

-----------------------------------------------------------------------------
\* Aggressive mode and the level: the constructor (core.py:57-72), start()
\* (core.py:2152-2160) and set_optimization_level() (core.py:2120-2124) with
\* every aggressive flag and level, one caller thread.

InitAggressive ==
    /\ \E ag \in BOOLEAN, lv \in Levels :
          init(20, ag, lv, EmptyDoc, "Linux", "wlan0")
    /\ ap = ApIdle
    /\ fn = FnIdle

AggressiveStartCall ==
    \E ag \in Opt(BOOLEAN), lv \in Opt(Levels) : start("gui", None, ag, lv, None)

AggressiveSetLevelCall == \E lv \in Levels : set_optimization_level("gui", lv)

NextAggressive ==
    \/ AggressiveStartCall
    \/ StartLevelApplied
    \/ StartBoosting
    \/ RunDiagnostics
    \/ StartBoostingActivate
    \/ AggressiveSetLevelCall
    \/ SetLevelApplied
    \/ CallReturn
    \/ MonitorIterate
    \/ MonitorDecide
    \/ MonitorApplied

SpecAggressive == InitAggressive /\ [][NextAggressive]_vars

\* C30: whenever aggressive mode is on, the optimization level is aggressive
\* or extreme.
C30_AggressiveImpliesHighLevel ==
    aggressive => optimization_level \in {"aggressive", "extreme"}

-----------------------------------------------------------------------------
\* Profile resolution: AdvancedConfig.get_config_for_level
\* (advanced_config.py:256-292) followed by the merge of
\* SignalBooster._get_effective_config (core.py:143-157).  The per-level tables
\* are dicts; a profile holds references to the sections of its level.

\* resolutions in one behaviour
MaxResolutions == 3

ResolveLevels == {"light", "standard"}
ResolveCategories == {"tcp", "dns"}

\* advanced_config.py:73-232 _load_default_configs: one section per category
\* and level (a section maps parameter names to values)
LevelTables ==
    [lv \in ResolveLevels |->
        [c \in ResolveCategories |-> Dict([p \in {"a"} |-> Atom(LevelRank(lv))])]]

\* the overrides of a resolution: sections for some of the categories
ResolveOverrides ==
    PartialFns(ResolveCategories,
               {Dict(d) : d \in PartialFns({"a", "b"}, {Atom(9)})})

\* advanced_config.py:279-282: result[param_group] =
\* self.configs[param_group][level_str] stores the section of the table itself,
\* not a copy: the profile of a level is the table entry of that level
get_config_for_level(tables, level) == tables[level]

\* core.py:151-155 on a profile that shares its sections with the tables:
\* config[category].update(...) changes the section of the table
tables_after_resolution(tables, level, adv) ==
    [tables EXCEPT ![level] =
        effective_config_merge(get_config_for_level(tables, level), adv)]

\* a resolution of the profile of level with the overrides adv; handed is the
\* level of the first profile handed out and its content at that moment
ResolveCall ==
    [name |-> "resolve", tables |-> LevelTables, resolutions |-> 0,
     level |-> "light", adv |-> EmptyDoc, profile |-> LevelTables["light"],
     handed_level |-> "light", handed |-> LevelTables["light"]]

InitResolve ==
    /\ InitHelpers
    /\ fn = ResolveCall

\* core.py:143-157 _get_effective_config
resolve_profile(level, adv) ==
    /\ fn.name = "resolve"
    /\ fn.resolutions < MaxResolutions
    /\ LET t == tables_after_resolution(fn.tables, level, adv)
       IN fn' = [fn EXCEPT !.tables = t,
                           !.resolutions = @ + 1,
                           !.level = level,
                           !.adv = adv,
                           !.profile = get_config_for_level(t, level),
                           !.handed_level = IF fn.resolutions = 0 THEN level ELSE @,
                           !.handed = IF fn.resolutions = 0
                                      THEN get_config_for_level(t, level) ELSE @]
    /\ UNCHANGED <<orch_vars, ap>>

NextResolve ==
    \E level \in ResolveLevels, adv \in ResolveOverrides : resolve_profile(level, adv)

SpecResolve == InitResolve /\ [][NextResolve]_vars

\* C26: resolving a profile leaves the per-level tables as they are: after any
\* resolutions, a resolution without overrides yields the original values of
\* its level, and the first profile handed out still has the content it was
\* handed out with.
C26_TablesUnchanged ==
    fn.name = "resolve"
    => /\ fn.tables = LevelTables
       /\ (fn.resolutions > 0 /\ fn.adv = EmptyDoc)
             => fn.profile = LevelTables[fn.level]
       /\ fn.resolutions > 0
             => get_config_for_level(fn.tables, fn.handed_level) = fn.handed

\* ---------------------------------------------------------------------------
\* The visualizer's history (visualization.py:36-44, 84-99)
\* ---------------------------------------------------------------------------

\* visualization.py:44
max_points == 100

\* points recorded in one run of the model
MaxDataPoints == 103

\* visualization.py:36-43, the keys of self.data in insertion order
HistoryKeys ==
    <<"time", "signal_strength", "download_speed", "upload_speed", "latency",
      "optimization_level">>

\* the readings the monitor hands over, as functions of the arrival number
ReadingStreams == {"steady", "alternating", "rising"}

\* visualization.py:86-94: the value appended to a series for the k-th point;
\* "time" takes the clock, the other series take the reading of their
\* argument, which differs from series to series
Reading(stream, k, key) ==
    LET offset == CHOOSE i \in 1..Len(HistoryKeys) : HistoryKeys[i] = key
    IN IF key = "time" THEN k
       ELSE IF stream = "steady" THEN offset
       ELSE IF stream = "alternating" THEN offset + (k % 2)
       ELSE offset + k

\* a mutation of the trimming: the first max_points entries are kept
trim_series_keeps_oldest(series) ==
    IF Len(series) > max_points THEN SubSeq(series, 1, max_points) ELSE series

\* visualization.py:98-99
trim_series(series) ==
    IF Len(series) > max_points
    THEN SubSeq(series, Len(series) - max_points + 1, Len(series))
    ELSE series

\* visualization.py:36-43
HistoryCall(stream) ==
    [name |-> "history", stream |-> stream, total |-> 0,
     data |-> [key \in {HistoryKeys[i] : i \in 1..Len(HistoryKeys)} |-> << >>]]

InitHistory ==
    /\ InitHelpers
    /\ \E stream \in ReadingStreams : fn = HistoryCall(stream)

\* visualization.py:84-99 add_data_point
add_data_point ==
    /\ fn.name = "history"
    /\ fn.total < MaxDataPoints
    /\ LET k == fn.total + 1
       IN fn' = [fn EXCEPT
                   !.total = k,
                   !.data = [key \in DOMAIN fn.data |->
                               trim_series(Append(fn.data[key],
                                                  Reading(fn.stream, k, key)))]]
    /\ UNCHANGED <<orch_vars, ap>>

NextHistory == add_data_point

SpecHistory == InitHistory /\ [][NextHistory]_vars

\* C27: after any sequence of recorded points every series holds at most
\* max_points entries, all series have the same length, and each holds exactly
\* the most recent Min(max_points, total) points in arrival order.
C27_HistoryIsMostRecent ==
    fn.name = "history"
    => LET n == Min(max_points, fn.total)
       IN \A key \in DOMAIN fn.data :
            /\ Len(fn.data[key]) <= max_points
            /\ Len(fn.data[key]) = n
            /\ \A i \in 1..n :
                 fn.data[key][i] = Reading(fn.stream, fn.total - n + i, key)

\* points have been evicted, and the readings in the window differ
C27_Witness ==
    /\ fn.name = "history"
    /\ fn.total > max_points + 1
    /\ fn.stream = "alternating"
    /\ Len(fn.data["latency"]) = max_points
    /\ fn.data["time"][1] = fn.total - max_points + 1

====
